---- MODULE Spec2Model ----
(***************************************************************************)
(* Model of src/dify_proxy.py: the rerank proxy NativeProxyHandler.        *)
(*                                                                         *)
(* JSON / Python values are tagged records:                                *)
(*   [t |-> "null"], [t |-> "bool", b], [t |-> "int", n],                  *)
(*   [t |-> "float", f], [t |-> "str", s], [t |-> "list", l],              *)
(*   [t |-> "map", m]   (m a function from key strings to values).         *)
(* Floats are represented by integers (the unit is irrelevant to the       *)
(* proxy, which only compares and copies them); NaN is not in the domain.  *)
(* Byte strings are [b |-> "bin"] (not UTF-8), [b |-> "text"] (UTF-8 that  *)
(* is not JSON) and [b |-> "json", j |-> v] (the UTF-8 encoding of v).     *)
(***************************************************************************)
EXTENDS Integers, Sequences, FiniteSets, TLC

VARIABLES pc, rfile, rerank_payload, calls, backend, response,
          hf_result, original_documents, dify_response

vars == <<pc, rfile, rerank_payload, calls, backend, response,
          hf_result, original_documents, dify_response>>

\* ------------------------------------------------------------------------
\* Bounds
\* ------------------------------------------------------------------------
MaxDocs == 2
MaxItems == 2

\* ------------------------------------------------------------------------
\* Values
\* ------------------------------------------------------------------------
None == [t |-> "none"]
J_null == [t |-> "null"]
J_bool(x) == [t |-> "bool", b |-> x]
J_int(x) == [t |-> "int", n |-> x]
J_float(x) == [t |-> "float", f |-> x]
J_str(x) == [t |-> "str", s |-> x]
J_list(x) == [t |-> "list", l |-> x]
J_map(x) == [t |-> "map", m |-> x]
EmptyMap == [k \in {} |-> None]

Ok(x) == [t |-> "ok", v |-> x]
Raise(x) == [t |-> "raise", e |-> x]

Bin == [b |-> "bin"]
Text == [b |-> "text"]

\* json.dumps(v).encode('utf-8')
json_dumps(v) == [b |-> "json", j |-> v]

\* json.loads(body)
json_loads(body) ==
  CASE body.b = "json" -> Ok(body.j)
    [] body.b = "text" -> Raise("JSONDecodeError")
    [] body.b = "bin" -> Raise("UnicodeDecodeError")

\* result_data.decode()
decode(body) == IF body.b = "bin" THEN Raise("UnicodeDecodeError") ELSE Ok(body)

\* d.get(k, dflt) on a dict
dict_get(d, k, dflt) == IF k \in DOMAIN d.m THEN d.m[k] ELSE dflt

\* x.get(k, dflt) on any value: only a dict has the attribute
py_get(x, k, dflt) ==
  IF x.t = "map" THEN Ok(dict_get(x, k, dflt)) ELSE Raise("AttributeError")

\* the text of a numeric string, as float() parses it
StrToFloat(s) ==
  CASE s = "1" -> Ok(1)
    [] s = "2" -> Ok(2)
    [] OTHER -> Raise("ValueError")

\* float(score) with a value float() cannot coerce replaced by 0.0
py_float_defaulting(v) ==
  CASE v.t = "float" -> Ok(J_float(v.f))
    [] v.t = "int" -> Ok(J_float(v.n))
    [] v.t = "bool" -> Ok(J_float(IF v.b THEN 1 ELSE 0))
    [] v.t = "str" -> IF StrToFloat(v.s).t = "ok"
                        THEN Ok(J_float(StrToFloat(v.s).v)) ELSE Ok(J_float(0))
    [] OTHER -> Ok(J_float(0))

\* float(score)
py_float(v) ==
  CASE v.t = "float" -> Ok(J_float(v.f))
    [] v.t = "int" -> Ok(J_float(v.n))
    [] v.t = "bool" -> Ok(J_float(IF v.b THEN 1 ELSE 0))
    [] v.t = "str" -> IF StrToFloat(v.s).t = "ok"
                        THEN Ok(J_float(StrToFloat(v.s).v)) ELSE Raise("ValueError")
    [] OTHER -> Raise("TypeError")

\* the number a value compares as in `index < n`; None if '<' is unsupported
NumberOf(v) ==
  CASE v.t = "int" -> v.n
    [] v.t = "float" -> v.f
    [] v.t = "bool" -> IF v.b THEN 1 ELSE 0
    [] OTHER -> None

\* original_documents[index], Python list subscription
list_getitem(docs, index) ==
  IF index.t \notin {"int", "bool"} THEN Raise("TypeError")
  ELSE LET n == NumberOf(index) IN
       IF n >= 0 /\ n < Len(docs.l) THEN Ok(docs.l[n + 1])
       ELSE IF n < 0 /\ n >= -Len(docs.l) THEN Ok(docs.l[Len(docs.l) + n + 1])
       ELSE Raise("IndexError")

\* original_documents[index] if index < len(original_documents) else ""
document_text(docs, index) ==
  IF docs.t # "list" THEN Raise("TypeError")
  ELSE IF index.t \notin {"int", "float", "bool"} THEN Raise("TypeError")
  ELSE IF NumberOf(index) < Len(docs.l) THEN list_getitem(docs, index)
  ELSE Ok(J_str(""))

\* item.get("index", 0) preferred over corpus_id
resolve_index_swapped(item) ==
  dict_get(item, "index", dict_get(item, "corpus_id", J_int(0)))

\* index = item.get("corpus_id", item.get("index", 0))
resolve_index(item) ==
  dict_get(item, "corpus_id", dict_get(item, "index", J_int(0)))

\* score = item.get("score", item.get("relevance_score", 0.0))
resolve_score(item) ==
  dict_get(item, "score", dict_get(item, "relevance_score", J_float(0)))

\* result = {"index": ..., "document": {"text": ...}, "relevance_score": float(score)}
make_result(index, score, docs) ==
  LET text == document_text(docs, index)
      fl == py_float(score)
  IN IF text.t = "raise" THEN text
     ELSE IF fl.t = "raise" THEN fl
     ELSE Ok(J_map([index |-> index,
                    document |-> J_map([text |-> text.v]),
                    relevance_score |-> fl.v]))

\* the body of the loops over items (formats 1 and 2); guarded is TRUE for
\* format 1, whose loop skips items that are not dicts
RECURSIVE parse_items(_, _, _, _)
parse_items(items, docs, guarded, acc) ==
  IF items = <<>> THEN Ok(acc)
  ELSE LET item == Head(items) IN
       IF item.t # "map"
       THEN IF guarded THEN parse_items(Tail(items), docs, guarded, acc)
            ELSE Raise("AttributeError")
       ELSE LET r == make_result(resolve_index(item), resolve_score(item), docs) IN
            IF r.t = "raise" THEN r
            ELSE parse_items(Tail(items), docs, guarded, Append(acc, r.v))

\* the loop over enumerate(hf_result["scores"]) (format 3); i is 0-based
RECURSIVE parse_scores(_, _, _, _)
parse_scores(scores, docs, i, acc) ==
  IF scores = <<>> THEN Ok(acc)
  ELSE LET r == make_result(J_int(i), Head(scores), docs) IN
       IF r.t = "raise" THEN r
       ELSE parse_scores(Tail(scores), docs, i + 1, Append(acc, r.v))

\* iter(v) of a for loop
py_iter(v) ==
  CASE v.t = "list" -> Ok(v.l)
    [] v.t \in {"null", "int", "float", "bool"} -> Raise("TypeError")

Reverse(s) == [k \in 1..Len(s) |-> s[Len(s) + 1 - k]]

Key(r) == r.m.relevance_score.f

\* insert r after every element whose key is <= its own
RECURSIVE Insert(_, _)
Insert(sorted, r) ==
  IF sorted = <<>> THEN <<r>>
  ELSE IF Key(Head(sorted)) <= Key(r) THEN <<Head(sorted)>> \o Insert(Tail(sorted), r)
  ELSE <<r>> \o sorted

\* stable ascending sort by key
RECURSIVE StableSort(_)
StableSort(s) ==
  IF s = <<>> THEN <<>>
  ELSE Insert(StableSort(SubSeq(s, 1, Len(s) - 1)), s[Len(s)])

\* ascending sort followed by a reversal
sort_results_unstable(results) == Reverse(StableSort(results))

\* results.sort(key=lambda x: x["relevance_score"], reverse=True):
\* list.sort reverses, sorts stably ascending, and reverses back
sort_results(results) == Reverse(StableSort(Reverse(results)))

\* the branch taken by the isinstance / key tests, scores tested first
select_format_swapped(hf) ==
  IF hf.t = "list" THEN "list"
  ELSE IF hf.t = "map"
       THEN IF "scores" \in DOMAIN hf.m THEN "scores"
            ELSE IF "results" \in DOMAIN hf.m THEN "results"
            ELSE "none"
       ELSE "none"

\* the branch taken by the isinstance / key tests
select_format(hf) ==
  IF hf.t = "list" THEN "list"
  ELSE IF hf.t = "map"
       THEN IF "results" \in DOMAIN hf.m THEN "results"
            ELSE IF "scores" \in DOMAIN hf.m THEN "scores"
            ELSE "none"
       ELSE "none"

\* the results list before the sort
collect_results(hf, docs) ==
  LET fmt == select_format(hf) IN
  CASE fmt = "list" -> parse_items(hf.l, docs, TRUE, <<>>)
    [] fmt = "results" ->
         LET it == py_iter(hf.m["results"]) IN
         IF it.t = "raise" THEN it ELSE parse_items(it.v, docs, FALSE, <<>>)
    [] fmt = "scores" ->
         LET it == py_iter(hf.m["scores"]) IN
         IF it.t = "raise" THEN it ELSE parse_scores(it.v, docs, 0, <<>>)
    [] OTHER -> Ok(<<>>)

convert_hf_to_dify_format(hf, docs) ==
  LET c == collect_results(hf, docs) IN
  IF c.t = "raise" THEN c
  ELSE Ok(J_map([results |-> J_list(sort_results(c.v))]))

\* ------------------------------------------------------------------------
\* do_POST
\* ------------------------------------------------------------------------

\* the backend is asked twice when the first attempt fails
backend_calls_retry(reply) == IF reply.k = "resp" THEN 1 ELSE 2

\* conn.request is issued once in the try block, whatever the backend does
backend_calls(reply) == 1

\* the except clause: status 500 and {"error": f"Proxy error: {e}"}; the
\* message text is represented by the name of the exception
except_handler(e) ==
  [status |-> 500, body |-> json_dumps(J_map([error |-> J_str(e)]))]

\* what a request leaves behind
Outcome(payload, n, reply, resp, hf, docs, dify) ==
  [rerank_payload |-> payload, calls |-> n, backend |-> reply, response |-> resp,
   hf_result |-> hf, original_documents |-> docs, dify_response |-> dify]

\* an exception that leaves do_POST: nothing is written to the client
Escapes == Outcome(None, 0, None, None, None, None, None)

\* the try block and its except clause
try_block(incoming, payload, reply) ==
  LET n == backend_calls(reply)
      failed(e) == Outcome(payload, n, reply, except_handler(e), None, None, None)
  IN
  IF reply.k = "refused" THEN failed("ConnectionRefusedError")
  ELSE IF reply.k = "reset" THEN failed("ConnectionResetError")
  ELSE IF decode(reply.body).t = "raise" THEN failed(decode(reply.body).e)
  ELSE IF reply.status = 200
  THEN LET hf == json_loads(reply.body) IN
       IF hf.t = "raise" THEN failed(hf.e)
       ELSE LET docs == dict_get(incoming, "documents", J_list(<<>>))
                dify == convert_hf_to_dify_format(hf.v, docs)
            IN IF dify.t = "raise"
               THEN Outcome(payload, n, reply, except_handler(dify.e), hf.v, docs, dify)
               ELSE Outcome(payload, n, reply,
                            [status |-> 200, body |-> json_dumps(dify.v)],
                            hf.v, docs, dify)
  ELSE Outcome(payload, n, reply,
               [status |-> reply.status, body |-> reply.body], None, None, None)

\* the whole handler, for the bytes read from the client and the backend's answer
do_POST_outcome(body, reply) ==
  LET incoming == json_loads(body) IN
  IF incoming.t = "raise" THEN Escapes
  ELSE LET query == py_get(incoming.v, "query", J_str(""))
           texts == py_get(incoming.v, "documents", J_list(<<>>))
       IN IF query.t = "raise" \/ texts.t = "raise" THEN Escapes
          ELSE try_block(incoming.v,
                         J_map([query |-> query.v,
                                texts |-> texts.v,
                                truncate |-> J_bool(TRUE),
                                truncation_direction |-> J_str("Right"),
                                raw_scores |-> J_bool(FALSE)]),
                         reply)

\* ------------------------------------------------------------------------
\* Inputs
\* ------------------------------------------------------------------------
AllTexts == <<"x", "y", "z", "w">>
DocsOfLen(n) == J_list([k \in 1..n |-> J_str(AllTexts[k])])

\* values of the inbound "documents" key: sequences, and two non-sequences
DocumentsValues == {DocsOfLen(n) : n \in 0..MaxDocs} \cup {J_null, J_int(5)}

InboundMaps ==
  {qp @@ dp : qp \in {EmptyMap, "query" :> J_str("q")},
              dp \in {EmptyMap} \cup {"documents" :> d : d \in DocumentsValues}}

\* the bytes a client can post
InboundBodies ==
  {Bin, Text}
    \cup {json_dumps(v) : v \in {J_list(<<>>), J_null, J_int(5)}}
    \cup {json_dumps(J_map(m)) : m \in InboundMaps}

F1 == J_float(1)
F2 == J_float(2)

IdxInts == {J_int(n) : n \in -(MaxDocs + 1)..MaxDocs}

IndexParts ==
  {EmptyMap}
    \cup {"corpus_id" :> v : v \in IdxInts \cup {J_null}}
    \cup {"index" :> J_int(1), ("corpus_id" :> J_int(0)) @@ ("index" :> J_int(1))}

ScoreParts ==
  {EmptyMap, "score" :> F1, "score" :> F2, "relevance_score" :> F2,
   ("score" :> F1) @@ ("relevance_score" :> F2),
   "score" :> J_str("abc"), "score" :> J_str("2"), "score" :> J_null}

\* backend items: every index part with score 1, every score part with
\* corpus_id 0, a second document with scores 1 and 2, and a non-dict item
Items ==
  {J_map(ip @@ ("score" :> F1)) : ip \in IndexParts}
    \cup {J_map(("corpus_id" :> J_int(0)) @@ sp) : sp \in ScoreParts}
    \cup {J_map(("corpus_id" :> J_int(1)) @@ ("score" :> F2)), J_int(7)}

ScoreValues == {F1, F2, J_int(1), J_str("abc"), J_null}

SeqsUpTo(S, n) == UNION {[1..k -> S] : k \in 0..n}

\* backend bodies of every shape over the given items and scores
HfShapes(items, scores) ==
  {J_list(l) : l \in SeqsUpTo(items, MaxItems)}
    \cup {J_map("results" :> J_list(l)) : l \in SeqsUpTo(items, MaxItems)}
    \cup {J_map("scores" :> J_list(l)) : l \in SeqsUpTo(scores, MaxItems)}
    \cup {J_map(("results" :> J_list(l)) @@ ("scores" :> J_list(s))) :
            l \in SeqsUpTo({J_map(("corpus_id" :> J_int(1)) @@ ("score" :> F2))}, 1),
            s \in SeqsUpTo({F1, J_str("abc")}, MaxItems)}
    \cup {J_map("results" :> v) : v \in {J_null, J_int(5)}}
    \cup {J_map("scores" :> v) : v \in {J_null, J_int(5)}}
    \cup {J_map(EmptyMap), J_map("detail" :> J_str("overloaded")),
          J_null, J_int(5), J_str("x")}

\* parsed backend bodies handed to convert_hf_to_dify_format
HfResults == HfShapes(Items, ScoreValues)

\* the items of the bodies the backend answers the server with: in-range,
\* negative, too large, with a score that is no number, and a non-dict
SampleItems ==
  {J_map(("corpus_id" :> J_int(n)) @@ ("score" :> F1)) :
     n \in {0, -1, -(MaxDocs + 1), MaxDocs}}
    \cup {J_map(("corpus_id" :> J_int(1)) @@ ("score" :> F2)),
          J_map(("corpus_id" :> J_int(0)) @@ ("score" :> J_str("abc"))),
          J_int(7)}

\* parsed bodies the backend answers the server with
HfSamples == HfShapes(SampleItems, {F1, F2, J_str("abc")})

\* ------------------------------------------------------------------------
\* Specification of convert_hf_to_dify_format alone
\* ------------------------------------------------------------------------
InitConvert ==
  /\ pc = "call"
  /\ hf_result \in HfResults
  /\ original_documents \in DocumentsValues
  /\ dify_response = None
  /\ rfile = None /\ rerank_payload = None /\ calls = 0
  /\ backend = None /\ response = None

Convert ==
  /\ pc = "call"
  /\ pc' = "return"
  /\ dify_response' = convert_hf_to_dify_format(hf_result, original_documents)
  /\ UNCHANGED <<rfile, rerank_payload, calls, backend, response,
                 hf_result, original_documents>>

NextConvert == Convert

SpecConvert == InitConvert /\ [][NextConvert]_vars

\* ------------------------------------------------------------------------
\* Specification of the server: requests handled one after another
\* ------------------------------------------------------------------------

\* statuses the backend answers with
Statuses == {200, 201, 503}

\* what the backend does with the one request it is sent
Replies ==
  {[k |-> "refused"], [k |-> "reset"]}
    \cup {[k |-> "resp", status |-> st, body |-> b] :
            st \in Statuses,
            b \in {Bin, Text} \cup {json_dumps(v) : v \in HfSamples}}

Init ==
  /\ pc = "idle"
  /\ rfile = None /\ rerank_payload = None /\ calls = 0
  /\ backend = None /\ response = None
  /\ hf_result = None /\ original_documents = None /\ dify_response = None

\* serve_forever accepts a POST and hands its bytes to a new handler
handle_request(body) ==
  /\ pc = "idle"
  /\ pc' = "do_POST"
  /\ rfile' = body
  /\ UNCHANGED <<rerank_payload, calls, backend, response,
                 hf_result, original_documents, dify_response>>

\* the handler runs to its end
do_POST(reply) ==
  /\ pc = "do_POST"
  /\ pc' = "done"
  /\ LET o == do_POST_outcome(rfile, reply) IN
       /\ rerank_payload' = o.rerank_payload
       /\ calls' = o.calls
       /\ backend' = o.backend
       /\ response' = o.response
       /\ hf_result' = o.hf_result
       /\ original_documents' = o.original_documents
       /\ dify_response' = o.dify_response
  /\ UNCHANGED rfile

\* the handler is discarded; nothing of a request outlives it
finish_request ==
  /\ pc = "done"
  /\ pc' = "idle"
  /\ rfile' = None /\ rerank_payload' = None /\ calls' = 0
  /\ backend' = None /\ response' = None
  /\ hf_result' = None /\ original_documents' = None /\ dify_response' = None

Next ==
  \/ \E body \in InboundBodies : handle_request(body)
  \/ \E reply \in Replies : do_POST(reply)
  \/ finish_request

Spec == Init /\ [][Next]_vars

\* ------------------------------------------------------------------------
\* Properties
\* ------------------------------------------------------------------------
IsJsonMap(b) == b.b = "json" /\ b.j.t = "map"
IsErrorBody(b) == IsJsonMap(b) /\ DOMAIN b.j.m = {"error"} /\ b.j.m["error"].t = "str"
IsResultsBody(b) == IsJsonMap(b) /\ DOMAIN b.j.m = {"results"} /\ b.j.m["results"].t = "list"

Handled == pc = "done"
Answered == response # None
BackendAnswered == backend # None /\ backend.k = "resp"
InboundParsed == rfile.b = "json"
InboundIsMap == InboundParsed /\ rfile.j.t = "map"

\* a value that is a JSON number
IsNumber(v) == v.t \in {"int", "float"}
\* a value float() has no reading of: not a number, not a boolean, not the
\* text of a number
NonNumeric(v) == v.t \in {"null", "list", "map"} \/ (v.t = "str" /\ v.s \notin {"1", "2"})

\* the index and score fields of an item, by the documented preference
ExpIndex(item) ==
  IF "corpus_id" \in DOMAIN item.m THEN item.m["corpus_id"]
  ELSE IF "index" \in DOMAIN item.m THEN item.m["index"] ELSE J_int(0)
ExpScore(item) ==
  IF "score" \in DOMAIN item.m THEN item.m["score"]
  ELSE IF "relevance_score" \in DOMAIN item.m THEN item.m["relevance_score"] ELSE J_float(0)

HasKey(hf, k) == hf.t = "map" /\ k \in DOMAIN hf.m
IsListShape(hf) == hf.t = "list"
IsResultsShape(hf) == HasKey(hf, "results")
IsScoresShape(hf) == HasKey(hf, "scores") /\ ~HasKey(hf, "results")

\* the items the matched shape hands to the item rule, in order
RECURSIVE MapsOf(_)
MapsOf(l) ==
  IF l = <<>> THEN <<>>
  ELSE IF Head(l).t = "map" THEN <<Head(l)>> \o MapsOf(Tail(l)) ELSE MapsOf(Tail(l))

Elems(l) == {l[k] : k \in 1..Len(l)}

\* a body of one of the three shapes of the data model: items with an
\* integer index and a numeric score, or a sequence of numeric scores
WellFormedItem(it) == it.t = "map" /\ ExpIndex(it).t = "int" /\ IsNumber(ExpScore(it))
RecognisedShape(hf) ==
  \/ IsListShape(hf) /\ \A it \in Elems(hf.l) : WellFormedItem(it)
  \/ IsResultsShape(hf) /\ hf.m["results"].t = "list"
       /\ \A it \in Elems(hf.m["results"].l) : WellFormedItem(it)
  \/ IsScoresShape(hf) /\ hf.m["scores"].t = "list"
       /\ \A sc \in Elems(hf.m["scores"].l) : IsNumber(sc)

\* every index and score value present in the body is a number
NumericItem(it) ==
  it.t = "map" => \A k \in DOMAIN it.m : IsNumber(it.m[k])
AllValuesNumeric(hf) ==
  /\ IsListShape(hf) => \A it \in Elems(hf.l) : NumericItem(it)
  /\ (IsResultsShape(hf) /\ hf.m["results"].t = "list") =>
       \A it \in Elems(hf.m["results"].l) : NumericItem(it)
  /\ (IsScoresShape(hf) /\ hf.m["scores"].t = "list") =>
       \A sc \in Elems(hf.m["scores"].l) : IsNumber(sc)

\* no item of the body carries a negative index
NonNegativeItem(it) ==
  (it.t = "map" /\ ExpIndex(it).t = "int") => ExpIndex(it).n >= 0
NoNegativeIndex(hf) ==
  /\ IsListShape(hf) => \A it \in Elems(hf.l) : NonNegativeItem(it)
  /\ (IsResultsShape(hf) /\ hf.m["results"].t = "list") =>
       \A it \in Elems(hf.m["results"].l) : NonNegativeItem(it)

\* the conversion reads a score float() has no reading of
ReadsNonNumericScore(hf) ==
  \/ IsListShape(hf) /\ \E it \in Elems(MapsOf(hf.l)) : NonNumeric(ExpScore(it))
  \/ IsResultsShape(hf) /\ hf.m["results"].t = "list"
       /\ \E it \in Elems(MapsOf(hf.m["results"].l)) : NonNumeric(ExpScore(it))
  \/ IsScoresShape(hf) /\ hf.m["scores"].t = "list"
       /\ \E sc \in Elems(hf.m["scores"].l) : NonNumeric(sc)

Returned == pc = "return" /\ dify_response.t = "ok"
Results == dify_response.v.m["results"].l

\* the permutations of 1..n
Perms == [n \in 0..MaxItems |->
            {p \in [1..n -> 1..n] : \A i, j \in 1..n : p[i] = p[j] => i = j}]

\* C1: a backend 200 with a body of a recognised shape is answered 200 with
\* the normalized {results: [...]} body; any other backend status is
\* answered with that status and the raw backend body, unconverted.
C1_StatusPropagation ==
  (Handled /\ BackendAnswered /\ InboundIsMap) =>
    /\ (backend.status = 200 /\ backend.body.b = "json"
          /\ RecognisedShape(backend.body.j)) =>
         (Answered /\ response.status = 200 /\ IsResultsBody(response.body))
    /\ backend.status # 200 =>
         (Answered /\ response = [status |-> backend.status, body |-> backend.body]
            /\ dify_response = None)

\* C2: an inbound body that is not valid JSON is answered 500 with a JSON
\* body holding an error field, and no backend call is made.
C2_MalformedInbound ==
  (Handled /\ ~InboundParsed) =>
    (Answered /\ response.status = 500 /\ IsErrorBody(response.body) /\ calls = 0)

\* C3: once the inbound body is parsed and the backend is called, a refused
\* or reset connection, a backend 200 body that is not JSON, and a score
\* that is no number (as any exception raised by the conversion) each end
\* in status 500 with a body {error: message}; a non-numeric score never
\* gives status 200.
C3_PipelineFailure ==
  (Handled /\ backend # None) =>
    LET failure ==
          \/ backend.k \in {"refused", "reset"}
          \/ backend.k = "resp" /\ backend.status = 200 /\ backend.body.b # "json"
          \/ backend.k = "resp" /\ backend.status = 200 /\ backend.body.b = "json"
               /\ ReadsNonNumericScore(backend.body.j)
          \/ dify_response.t = "raise"
    IN failure => (Answered /\ response.status = 500 /\ IsErrorBody(response.body))

C3_Witness ==
  /\ Handled /\ BackendAnswered /\ backend.status = 200 /\ backend.body.b = "json"
  /\ ReadsNonNumericScore(backend.body.j)
  /\ original_documents = DocsOfLen(MaxDocs)
  /\ dify_response = Raise("ValueError")
  /\ Answered /\ response.status = 500

\* C4: for documents of length N and integer indexes, document.text is
\* documents[i] when 0 <= i < N and "" otherwise, and no index raises.
C4_DocumentText ==
  (pc = "return" /\ original_documents.t = "list" /\ RecognisedShape(hf_result)) =>
    /\ dify_response.t = "ok"
    /\ \A r \in Elems(Results) :
         LET i == r.m["index"].n
             N == Len(original_documents.l)
         IN r.m["document"].m["text"] =
              IF 0 <= i /\ i < N THEN original_documents.l[i + 1] ELSE J_str("")

C6_ShapePriority ==
  pc = "return" =>
    /\ IsListShape(hf_result) =>
         (Returned => Len(Results) = Len(MapsOf(hf_result.l)))
    /\ IsResultsShape(hf_result) =>
         /\ dify_response =
              convert_hf_to_dify_format(J_map("results" :> hf_result.m["results"]),
                                        original_documents)
         /\ Returned => Len(Results) = Len(hf_result.m["results"].l)
    /\ IsScoresShape(hf_result) =>
         (Returned =>
            {r.m["index"] : r \in Elems(Results)} =
              {J_int(k - 1) : k \in 1..Len(hf_result.m["scores"].l)})
    /\ ~(IsListShape(hf_result) \/ IsResultsShape(hf_result) \/ IsScoresShape(hf_result)) =>
         dify_response = Ok(J_map([results |-> J_list(<<>>)]))

C6_Witness ==
  /\ Returned /\ HasKey(hf_result, "results") /\ HasKey(hf_result, "scores")
  /\ hf_result.m["scores"].l # <<>>
  /\ Len(Results) = 1 /\ Results[1].m["index"] = J_int(1)

\* C7: in the list and results shapes a result's index is the item's
\* corpus_id, else its index, else 0, and its relevance_score is the item's
\* score, else its relevance_score, else 0.0; in the scores shape the index
\* of the k-th score is its position.
C7_FieldResolution ==
  Returned =>
    LET n == Len(Results) IN
    /\ (IsListShape(hf_result) \/ IsResultsShape(hf_result)) =>
         LET items == MapsOf(IF IsListShape(hf_result) THEN hf_result.l
                             ELSE hf_result.m["results"].l)
         IN /\ n = Len(items)
            /\ \E p \in Perms[n] : \A k \in 1..n :
                 /\ Results[k].m["index"] = ExpIndex(items[p[k]])
                 /\ Results[k].m["relevance_score"] = py_float(ExpScore(items[p[k]])).v
    /\ IsScoresShape(hf_result) =>
         LET scores == hf_result.m["scores"].l
         IN /\ n = Len(scores)
            /\ \E p \in Perms[n] : \A k \in 1..n :
                 /\ Results[k].m["index"] = J_int(p[k] - 1)
                 /\ Results[k].m["relevance_score"] = py_float(scores[p[k]]).v

C7_Witness ==
  /\ Returned /\ IsListShape(hf_result) /\ Len(Results) = 2
  /\ \E it \in Elems(hf_result.l) :
       it.t = "map" /\ {"corpus_id", "index"} \subseteq DOMAIN it.m
         /\ it.m["corpus_id"] # it.m["index"]
  /\ \E it \in Elems(hf_result.l) :
       it.t = "map" /\ {"score", "relevance_score"} \subseteq DOMAIN it.m
         /\ it.m["score"] # it.m["relevance_score"]

\* C8: for every parsed inbound value the payload has query = inbound.query
\* ("" if absent), texts = inbound.documents ([] if absent or no sequence),
\* truncate = true, truncation_direction = "Right", raw_scores = false.
C8_RequestTranslation ==
  (Handled /\ InboundParsed) =>
    LET inb == rfile.j IN
    rerank_payload =
      J_map([query |-> IF HasKey(inb, "query") THEN inb.m["query"] ELSE J_str(""),
             texts |-> IF HasKey(inb, "documents") /\ inb.m["documents"].t = "list"
                         THEN inb.m["documents"] ELSE J_list(<<>>),
             truncate |-> J_bool(TRUE),
             truncation_direction |-> J_str("Right"),
             raw_scores |-> J_bool(FALSE)])

\* C9: a backend 200 body whose present score and index values are all
\* numbers is answered with status 200, whatever else is missing,
\* unrecognised, of an unexpected type or out of range. (Stated for
\* documents that are a sequence and indexes that are not negative, the
\* cases C8 and C4 settle being set aside.)
C9_OnlyNumericFailures ==
  (Handled /\ BackendAnswered /\ InboundIsMap
     /\ backend.status = 200 /\ backend.body.b = "json"
     /\ dict_get(rfile.j, "documents", J_list(<<>>)).t = "list"
     /\ AllValuesNumeric(backend.body.j)
     /\ NoNegativeIndex(backend.body.j)) =>
    (Answered /\ response.status = 200)

====
